---- MODULE Spec2Model ----
(***************************************************************************)
(* ID3 split criterion of homework6_id3_decision_tree: Shannon entropy of  *)
(* a probability vector (calculateEntropy), the weighted average entropy   *)
(* of a partition (calculateAverageInformationEntropy), both of utils.h,   *)
(* and the Entries queries declared in entries.h.                          *)
(*                                                                         *)
(* Entropy is a C++ double.  A double is modelled as an IEEE-754 binary64  *)
(* value: NaN, +-infinity, zero, or (-1)^sign * mant * 2^exp with mant an  *)
(* odd natural of at most MantBits bits.  Every arithmetic operation       *)
(* computes the exact result and rounds it to nearest, ties to even.       *)
(* Naturals wider than a TLC integer are little-endian sequences of limbs  *)
(* in base Base.  Exponent overflow and subnormals are not modelled: the   *)
(* values of the model stay far from both.  The sign of zero is dropped:   *)
(* no operation of the program tells +0 from -0.                           *)
(***************************************************************************)
EXTENDS Integers, Sequences, FiniteSets, TLC

\* ------------------------------------------------------------- naturals
Base == 2^14

MantBits == 53

RECURSIVE Trim(_)
Trim(a) ==
  IF a = <<>> THEN <<>>
  ELSE IF a[Len(a)] = 0 THEN Trim(SubSeq(a, 1, Len(a) - 1)) ELSE a

RECURSIVE BFromInt(_)
BFromInt(n) == IF n = 0 THEN <<>> ELSE <<n % Base>> \o BFromInt(n \div Base)

RECURSIVE BAddC(_, _, _)
BAddC(a, b, c) ==
  IF a = <<>> /\ b = <<>> THEN (IF c = 0 THEN <<>> ELSE <<c>>)
  ELSE LET x == IF a = <<>> THEN 0 ELSE Head(a)
           y == IF b = <<>> THEN 0 ELSE Head(b)
           s == x + y + c
       IN <<s % Base>> \o BAddC(IF a = <<>> THEN <<>> ELSE Tail(a),
                                IF b = <<>> THEN <<>> ELSE Tail(b),
                                s \div Base)

BAdd(a, b) == BAddC(a, b, 0)

\* a - b for a >= b
RECURSIVE BSubC(_, _, _)
BSubC(a, b, c) ==
  IF a = <<>> THEN <<>>
  ELSE LET y == IF b = <<>> THEN 0 ELSE Head(b)
           d == Head(a) - y - c
       IN <<d % Base>> \o BSubC(Tail(a),
                                IF b = <<>> THEN <<>> ELSE Tail(b),
                                IF d < 0 THEN 1 ELSE 0)

BSub(a, b) == Trim(BSubC(a, b, 0))

\* -1, 0, 1 as a < b, a = b, a > b
RECURSIVE BCmpAt(_, _, _)
BCmpAt(a, b, i) ==
  IF i = 0 THEN 0
  ELSE IF a[i] < b[i] THEN -1
  ELSE IF a[i] > b[i] THEN 1
  ELSE BCmpAt(a, b, i - 1)

BCmp(a, b) ==
  IF Len(a) < Len(b) THEN -1
  ELSE IF Len(a) > Len(b) THEN 1
  ELSE BCmpAt(a, b, Len(a))

\* a * k for 0 <= k < 2^17
RECURSIVE BMulSmallC(_, _, _)
BMulSmallC(a, k, c) ==
  IF a = <<>> THEN BFromInt(c)
  ELSE LET p == Head(a) * k + c
       IN <<p % Base>> \o BMulSmallC(Tail(a), k, p \div Base)

BMulSmall(a, k) == IF k = 0 THEN <<>> ELSE BMulSmallC(a, k, 0)

RECURSIVE BMul(_, _)
BMul(a, b) ==
  IF a = <<>> \/ b = <<>> THEN <<>>
  ELSE LET rest == BMul(a, Tail(b))
       IN BAdd(BMulSmall(a, Head(b)),
               IF rest = <<>> THEN <<>> ELSE <<0>> \o rest)

\* <<a div d, a mod d>> for 0 < d <= 2^16
RECURSIVE BDivSmallAt(_, _, _, _)
BDivSmallAt(a, d, i, r) ==
  IF i = 0 THEN <<<<>>, r>>
  ELSE LET cur == r * Base + a[i]
           low == BDivSmallAt(a, d, i - 1, cur % d)
       IN <<low[1] \o <<cur \div d>>, low[2]>>

BDivSmall(a, d) ==
  LET qr == BDivSmallAt(a, d, Len(a), 0) IN <<Trim(qr[1]), qr[2]>>

Zeros(n) == [i \in 1..n |-> 0]

BShl(a, k) ==
  IF a = <<>> THEN <<>>
  ELSE Zeros(k \div 14) \o BMulSmall(a, 2^(k % 14))

\* <<a div 2^k, a mod 2^k # 0>>
BShr(a, k) ==
  LET drop == k \div 14
      lost == \E i \in 1..Len(a) : i <= drop /\ a[i] # 0
      kept == IF drop >= Len(a) THEN <<>> ELSE SubSeq(a, drop + 1, Len(a))
      qr   == BDivSmall(kept, 2^(k % 14))
  IN <<qr[1], lost \/ qr[2] # 0>>

RECURSIVE IntBitLen(_)
IntBitLen(n) == IF n = 0 THEN 0 ELSE 1 + IntBitLen(n \div 2)

BBitLen(a) ==
  IF a = <<>> THEN 0 ELSE (Len(a) - 1) * 14 + IntBitLen(a[Len(a)])

BIsOdd(a) == a # <<>> /\ a[1] % 2 = 1

RECURSIVE IntTrailingZeros(_)
IntTrailingZeros(n) == IF n % 2 = 1 THEN 0 ELSE 1 + IntTrailingZeros(n \div 2)

\* number of trailing zero bits of a > 0
RECURSIVE BTrailingZeros(_)
BTrailingZeros(a) ==
  IF Head(a) = 0 THEN 14 + BTrailingZeros(Tail(a))
  ELSE IntTrailingZeros(Head(a))

\* the value of a natural below 2^28 as an integer
BToInt(a) ==
  IF a = <<>> THEN 0 ELSE IF Len(a) = 1 THEN a[1] ELSE a[1] + Base * a[2]

\* -------------------------------------------------------------- doubles
NaN  == [kind |-> "nan",  sign |-> 0, exp |-> 0, mant |-> <<>>]
Zero == [kind |-> "zero", sign |-> 0, exp |-> 0, mant |-> <<>>]
Inf(s) == [kind |-> "inf", sign |-> s, exp |-> 0, mant |-> <<>>]

\* (-1)^s * m * 2^e for a natural m > 0 of at most MantBits bits
CanonicalAt(s, e, m, tz) ==
  [kind |-> "fin", sign |-> s, exp |-> e + tz, mant |-> BShr(m, tz)[1]]

Canonical(s, e, m) == CanonicalAt(s, e, m, BTrailingZeros(m))

\* q, or q + 1 when the bits cut off q are above one half, or are one half
\* and q is odd (guard: the first bit cut off; sticky: a later one is set)
RoundUp(q, guard, sticky) ==
  IF guard /\ (sticky \/ BIsOdd(q)) THEN BAdd(q, <<1>>) ELSE q

\* n1 = <<m div 2^(k-1), a bit below is set>>: m div 2^k, rounded
RoundHalf(n1, sticky) ==
  RoundUp(BShr(n1[1], 1)[1], BIsOdd(n1[1]), sticky \/ n1[2])

RoundBits(s, e, m, sticky, bl) ==
  Canonical(s,
            IF bl <= MantBits THEN e ELSE e + (bl - MantBits),
            IF bl <= MantBits THEN m
            ELSE RoundHalf(BShr(m, bl - MantBits - 1), sticky))

\* The double nearest to (-1)^s * (m + f) * 2^e, ties to even, where
\* 0 < f < 1 when sticky (m then has more than MantBits bits) and f = 0
\* otherwise.
Round(s, e, m, sticky) ==
  IF m = <<>> THEN Zero ELSE RoundBits(s, e, m, sticky, BBitLen(m))

FromInt(n) ==
  IF n = 0 THEN Zero
  ELSE Canonical(IF n < 0 THEN 1 ELSE 0, 0, BFromInt(IF n < 0 THEN -n ELSE n))


FNeg(x) ==
  IF x.kind \in {"fin", "inf"} THEN [x EXCEPT !.sign = 1 - x.sign] ELSE x

Min(i, j) == IF i < j THEN i ELSE j

\* (-1)^sx * mx * 2^e + (-1)^sy * my * 2^e, c being BCmp(mx, my)
AddOrdered(sx, mx, sy, my, e, c) ==
  Round(IF sx = sy \/ c > 0 THEN sx ELSE sy,
        e,
        IF sx = sy THEN BAdd(mx, my)
        ELSE BSub(IF c > 0 THEN mx ELSE my, IF c > 0 THEN my ELSE mx),
        FALSE)

AddAligned(sx, mx, sy, my, e) == AddOrdered(sx, mx, sy, my, e, BCmp(mx, my))

AddFinite(x, y, e) ==
  AddAligned(x.sign, BShl(x.mant, x.exp - e), y.sign, BShl(y.mant, y.exp - e), e)

FAdd(x, y) ==
  IF x.kind = "nan" \/ y.kind = "nan" THEN NaN
  ELSE IF x.kind = "inf"
       THEN (IF y.kind = "inf" /\ y.sign # x.sign THEN NaN ELSE x)
  ELSE IF y.kind = "inf" THEN y
  ELSE IF x.kind = "zero" THEN y
  ELSE IF y.kind = "zero" THEN x
  ELSE AddFinite(x, y, Min(x.exp, y.exp))

FSub(x, y) == FAdd(x, FNeg(y))

FMul(x, y) ==
  IF x.kind = "nan" \/ y.kind = "nan" THEN NaN
  ELSE IF x.kind = "inf" \/ y.kind = "inf"
       THEN (IF x.kind = "zero" \/ y.kind = "zero" THEN NaN
             ELSE Inf((x.sign + y.sign) % 2))
  ELSE IF x.kind = "zero" \/ y.kind = "zero" THEN Zero
  ELSE Round((x.sign + y.sign) % 2, x.exp + y.exp, BMul(x.mant, y.mant), FALSE)

DivRound(s, e, qr) == Round(s, e, qr[1], qr[2] # 0)

\* mx * 2^e / d for 0 < d < 2^16, the quotient taken on k more bits
DivAt(s, e, mx, d, k) == DivRound(s, e - k, BDivSmall(BShl(mx, k), d))

DivBy(s, e, mx, d) == DivAt(s, e, mx, d, MantBits + 3 + IntBitLen(d))

\* x / y; a finite divisor has an odd part below 2^16 (the divisors of the
\* program are converted ints)
FDiv(x, y) ==
  IF x.kind = "nan" \/ y.kind = "nan" THEN NaN
  ELSE IF x.kind = "inf"
       THEN (IF y.kind = "inf" THEN NaN ELSE Inf((x.sign + y.sign) % 2))
  ELSE IF y.kind = "inf" THEN Zero
  ELSE IF y.kind = "zero"
       THEN (IF x.kind = "zero" THEN NaN ELSE Inf(x.sign))
  ELSE IF x.kind = "zero" THEN Zero
  ELSE DivBy((x.sign + y.sign) % 2, x.exp - y.exp, x.mant, BToInt(y.mant))

\* operator== and operator< of double: false on NaN
FEq(x, y) == x.kind # "nan" /\ y.kind # "nan" /\ x = y

IsNegative(d) == d.kind \in {"fin", "inf"} /\ d.sign = 1

FLess(x, y) == x.kind # "nan" /\ y.kind # "nan" /\ x # y /\ IsNegative(FSub(x, y))

\* log2 of <cmath>.  Exact where IEEE-754 and the C library are: NaN below
\* 0, -infinity at 0, k at 2^k.  Elsewhere log2 is irrational and the
\* library returns a double next to it; the model returns the double that
\* repeated squaring on LogFractionBits fractional bits yields, which lies
\* within 2^-(LogFractionBits - 2) below log2.
LogFractionBits == 13

RECURSIVE LogFraction(_, _, _)
LogFraction(y, i, acc) ==
  IF i = 0 THEN acc
  ELSE LET sq == (y * y) \div 2^LogFractionBits
       IN IF sq >= 2^(LogFractionBits + 1)
          THEN LogFraction(sq \div 2, i - 1, 2 * acc + 1)
          ELSE LogFraction(sq, i - 1, 2 * acc)

\* the leading LogFractionBits + 1 bits of m, a natural of bl bits
LeadingBits(m, bl) ==
  IF bl - 1 >= LogFractionBits
  THEN BToInt(BShr(m, bl - 1 - LogFractionBits)[1])
  ELSE BToInt(m) * 2^(LogFractionBits - (bl - 1))

\* n * 2^-LogFractionBits
Scaled(n) ==
  IF n = 0 THEN Zero
  ELSE Canonical(IF n < 0 THEN 1 ELSE 0, -LogFractionBits,
                 BFromInt(IF n < 0 THEN -n ELSE n))

\* log2(m * 2^e), m of bl bits: e + bl - 1 + log2(m / 2^(bl - 1))
Log2Finite(m, e, bl) ==
  Scaled((e + bl - 1) * 2^LogFractionBits
         + LogFraction(LeadingBits(m, bl), LogFractionBits, 0))

Log2(x) ==
  IF x.kind = "nan" THEN NaN
  ELSE IF x.kind = "zero" THEN Inf(1)
  ELSE IF x.sign = 1 THEN NaN
  ELSE IF x.kind = "inf" THEN x
  ELSE Log2Finite(x.mant, x.exp, BBitLen(x.mant))

\* --------------------------------------------------------------- utils.h
\* The outcome of a call: a returned value or a thrown exception.
Return(v) == [kind |-> "return", exception |-> "", value |-> v]
Throw(e)  == [kind |-> "throw", exception |-> e, value |-> Zero]
NoResult  == [kind |-> "none", exception |-> "", value |-> Zero]

\* A variant of SumUpTo: the sum starts at 1 instead of 0.
RECURSIVE SumFromOne(_, _)
SumFromOne(p, n) ==
  IF n = 0 THEN FromInt(1) ELSE FAdd(SumFromOne(p, n - 1), p[n])

\* for (auto probability : probabilities) sumOfProbabilites += probability;
RECURSIVE SumUpTo(_, _)
SumUpTo(p, n) == IF n = 0 THEN Zero ELSE FAdd(SumUpTo(p, n - 1), p[n])

sumOfProbabilites(p) == SumUpTo(p, Len(p))

\* A variant of SumIsNotOne: sumOfProbabilites > 1.
SumIsAboveOne(sum) == FLess(FromInt(1), sum)

\* sumOfProbabilites != 1
SumIsNotOne(sum) == ~FEq(sum, FromInt(1))

\* probability * log2(probability)
EntropyTerm(probability) == FMul(probability, Log2(probability))

\* A variant of EntropyUpTo: entropy += instead of entropy -=.
RECURSIVE EntropyAdded(_, _)
EntropyAdded(p, n) ==
  IF n = 0 THEN Zero ELSE FAdd(EntropyAdded(p, n - 1), EntropyTerm(p[n]))

\* for (auto probability : probabilities) entropy -= ...;
RECURSIVE EntropyUpTo(_, _)
EntropyUpTo(p, n) ==
  IF n = 0 THEN Zero ELSE FSub(EntropyUpTo(p, n - 1), EntropyTerm(p[n]))

calculateEntropy(p) ==
  IF SumIsNotOne(sumOfProbabilites(p))
  THEN Throw("InvalidSumOfProbabilitiesException")
  ELSE Return(EntropyUpTo(p, Len(p)))

\* Variants of CountExceedsTotal: count > total + 1, and count >= total.
CountExceedsTotalByTwo(count, total) == count > total + 1

CountReachesTotal(count, total) == count >= total

\* count > totalNumberOfEntries
CountExceedsTotal(count, total) == count > total

\* A variant of WeightedEntropy: the division is the division of ints
\* (no static_cast<double>).
WeightedEntropyOfInts(count, total, entropy) ==
  FMul(FromInt(IF total = 0 THEN 0 ELSE count \div total), entropy)

\* (static_cast<double>(count) / totalNumberOfEntries) * entropy
WeightedEntropy(count, total, entropy) ==
  FMul(FDiv(FromInt(count), FromInt(total)), entropy)

\* A variant of AverageFrom: the counts seen so far are compared, summed,
\* with totalNumberOfEntries.
RECURSIVE CountUpTo(_, _)
CountUpTo(pairs, i) == IF i = 0 THEN 0 ELSE CountUpTo(pairs, i - 1) + pairs[i][1]

RECURSIVE AverageFromSummed(_, _, _, _)
AverageFromSummed(total, pairs, i, acc) ==
  IF i > Len(pairs) THEN Return(acc)
  ELSE IF CountUpTo(pairs, i) > total
       THEN Throw("InvalidNumberOfEntriesException")
  ELSE AverageFromSummed(total, pairs, i + 1,
                         FAdd(acc, WeightedEntropy(pairs[i][1], total, pairs[i][2])))

\* The loop from pair i on, averageInformationEntropy being acc.
RECURSIVE AverageFrom(_, _, _, _)
AverageFrom(total, pairs, i, acc) ==
  IF i > Len(pairs) THEN Return(acc)
  ELSE IF CountExceedsTotal(pairs[i][1], total)
       THEN Throw("InvalidNumberOfEntriesException")
  ELSE AverageFrom(total, pairs, i + 1,
                   FAdd(acc, WeightedEntropy(pairs[i][1], total, pairs[i][2])))

calculateAverageInformationEntropy(total, pairs) ==
  AverageFrom(total, pairs, 1, Zero)

\* ------------------------------------------------------------- entries.h
\* entries.h declares the Entries queries and holds no body for them: the
\* operators of this section follow the description of each query.  A row
\* is <<class, value of attribute 0, value of attribute 1, ...>>.
\*
\* An unordered_set is iterated in an order the library fixes.  The model
\* iterates in the order of IterationOrder.  The order decides the order
\* of the additions of doubles only: it is immaterial for two addends
\* (x + y = y + x) and for equal addends, which is all the datasets of the
\* model produce.
ClassLabels == {"No", "Yes"}
SpeciesLabels == {"s1", "s2", "s3", "s4", "s5", "s6"}
AttributeValues == {"low", "high"}
AttributeNames == <<"Humidity", "Wind">>
IterationOrder ==
  <<"No", "Yes", "s1", "s2", "s3", "s4", "s5", "s6", "low", "high">>

NumAttributes == Len(AttributeNames)

InOrder(S) == LET In(x) == x \in S IN SelectSeq(IterationOrder, In)

getClasses(rows) == {rows[i][1] : i \in 1..Len(rows)}

areAllEntriesWithSameClass(rows) == Cardinality(getClasses(rows)) = 1

isEmpty(rows) == Len(rows) = 0

countEntriesByAttribute(rows, a, v) ==
  Cardinality({i \in 1..Len(rows) : rows[i][a + 2] = v})

getAllPossibleAttributeValues(rows, a) ==
  {rows[i][a + 2] : i \in 1..Len(rows)}

\* count of class c in rows / number of rows, for the classes cs
DistributionOver(rows, cs) ==
  [k \in 1..Len(cs) |->
     FDiv(FromInt(Cardinality({i \in 1..Len(rows) : rows[i][1] = cs[k]})),
          FromInt(Len(rows)))]

ClassDistribution(rows) == DistributionOver(rows, InOrder(getClasses(rows)))

calculateAttributeEntropy(rows, a, v) ==
  LET Has(row) == row[a + 2] = v
  IN calculateEntropy(ClassDistribution(SelectSeq(rows, Has)))

\* An exception propagates: the outcome is the thrown one if there is one.
OrElse(thrown, outcome) == IF thrown.kind = "throw" THEN thrown ELSE outcome

FirstOf(outcomes, thrown) ==
  IF thrown = {} THEN NoResult
  ELSE outcomes[CHOOSE i \in thrown : \A j \in thrown : i <= j]

\* the first thrown outcome of a sequence of outcomes, NoResult when none
FirstThrow(outcomes) ==
  FirstOf(outcomes, {i \in 1..Len(outcomes) : outcomes[i].kind = "throw"})

AverageOf(rows, a, values, entropies) ==
  OrElse(FirstThrow(entropies),
         calculateAverageInformationEntropy(
           Len(rows),
           [k \in 1..Len(values) |->
              <<countEntriesByAttribute(rows, a, values[k]),
                entropies[k].value>>]))

AverageOver(rows, a, values) ==
  AverageOf(rows, a, values,
            [k \in 1..Len(values) |->
               calculateAttributeEntropy(rows, a, values[k])])

calculateAttributeAverageInformationEntropy(rows, a) ==
  AverageOver(rows, a, InOrder(getAllPossibleAttributeValues(rows, a)))

\* InformationGain(A) = E(S) - I(A)
GainOf(es, avg) == OrElse(avg, Return(FSub(es.value, avg.value)))

GainsFrom(rows, es) ==
  [k \in 1..NumAttributes |->
     OrElse(es, GainOf(es, calculateAttributeAverageInformationEntropy(rows, k - 1)))]

\* the gains of the attributes 0, 1, ... as outcomes
InformationGains(rows) == GainsFrom(rows, calculateEntropy(ClassDistribution(rows)))

\* the lowest attribute among those of maximal gain, scanning from k on
RECURSIVE BestFrom(_, _, _)
BestFrom(gains, k, best) ==
  IF k > Len(gains) THEN best
  ELSE BestFrom(gains, k + 1,
                IF FLess(gains[best].value, gains[k].value) THEN k ELSE best)

BestOf(gains) == OrElse(FirstThrow(gains), Return(BestFrom(gains, 2, 1) - 1))

getAttributeWithHighestInformationGain(rows) == BestOf(InformationGains(rows))

\* ---------------------------------------------------------------- state
VARIABLES
  op,                            \* the function called, "none" before
  probabilities,                 \* argument of calculateEntropy
  totalNumberOfEntries,          \* arguments of
  attributeAndItsEntropyPair,    \*   calculateAverageInformationEntropy
  data,                          \* Entries::data
  attributeId,                   \* argument of an Entries query
  result,                        \* the outcome of the call
  previous                       \* the outcome of the same call before it

vars == <<op, probabilities, totalNumberOfEntries,
          attributeAndItsEntropyPair, data, attributeId, result, previous>>

\* ---------------------------------------------------------------- inputs
MaxLen == 3
MaxUniformBits == 3
MaxCount == 2
MaxPairs == 3

SeqsUpTo(S, n) == UNION {[1..k -> S] : k \in 0..n}

D(a, b) == FDiv(FromInt(a), FromInt(b))

\* 0, 1/4, 1/2, 1, the doubles 0.49, 0.1 and 0.3, and 1/2 - 2^-30
ProbabilityValues ==
  {Zero, D(1, 4), D(1, 2), FromInt(1), D(49, 100), D(1, 10), D(3, 10),
   D(2^29 - 1, 2^30)}

Uniform(n) == [i \in 1..(2^n) |-> D(1, 2^n)]

ProbabilityInputs ==
  SeqsUpTo(ProbabilityValues, MaxLen)
    \cup {Uniform(n) : n \in 0..MaxUniformBits}
    \cup {[i \in 1..10 |-> D(1, 10)]}

\* 1/2, 1 and the double 0.1
EntropyValues == {D(1, 2), FromInt(1), D(1, 10)}

PairInputs == SeqsUpTo((0..(MaxCount + 1)) \X EntropyValues, MaxPairs)

\* The rows of a dataset, numbered, and the datasets of at most MaxRows
\* rows listed in the order of the numbers (the order of the rows of a
\* dataset matters to no query).
MaxRows == 5

NumRowTypes == Cardinality(ClassLabels) * Cardinality(AttributeValues)^NumAttributes

RowNumber(k) ==
  <<InOrder(ClassLabels)[1 + ((k - 1) % Cardinality(ClassLabels))]>> \o
  [j \in 1..NumAttributes |->
     InOrder(AttributeValues)[
       1 + (((k - 1) \div (Cardinality(ClassLabels) * Cardinality(AttributeValues)^(j - 1)))
              % Cardinality(AttributeValues))]]

RECURSIVE SortedSeqs(_, _)
SortedSeqs(n, top) ==
  IF n = 0 THEN {<<>>}
  ELSE UNION {{Append(s, v) : s \in SortedSeqs(n - 1, v)} : v \in 1..top}

\* six rows, each of a class of its own
SixSpecies ==
  <<<<"s1", "low", "low">>, <<"s2", "low", "high">>, <<"s3", "high", "low">>,
    <<"s4", "high", "high">>, <<"s5", "low", "low">>, <<"s6", "high", "high">>>>

DataInputs ==
  UNION {{[i \in 1..n |-> RowNumber(s[i])] : s \in SortedSeqs(n, NumRowTypes)}
           : n \in 0..MaxRows}
    \cup {SixSpecies}

\* -------------------------------------------------------- specifications
InitEntropy ==
  /\ op = "none"
  /\ probabilities \in ProbabilityInputs
  /\ totalNumberOfEntries = 0
  /\ attributeAndItsEntropyPair = <<>>
  /\ data = <<>>
  /\ attributeId = 0
  /\ result = NoResult
  /\ previous = NoResult

CalculateEntropy ==
  /\ op = "none"
  /\ op' = "calculateEntropy"
  /\ result' = calculateEntropy(probabilities)
  /\ UNCHANGED <<probabilities, totalNumberOfEntries,
                 attributeAndItsEntropyPair, data, attributeId, previous>>

SpecEntropy == InitEntropy /\ [][CalculateEntropy]_vars

InitAverage ==
  /\ op = "none"
  /\ probabilities = <<>>
  /\ totalNumberOfEntries \in 0..MaxCount
  /\ attributeAndItsEntropyPair \in PairInputs
  /\ data = <<>>
  /\ attributeId = 0
  /\ result = NoResult
  /\ previous = NoResult

CalculateAverageInformationEntropy ==
  /\ op = "none"
  /\ op' = "calculateAverageInformationEntropy"
  /\ result' = calculateAverageInformationEntropy(
                  totalNumberOfEntries, attributeAndItsEntropyPair)
  /\ UNCHANGED <<probabilities, totalNumberOfEntries,
                 attributeAndItsEntropyPair, data, attributeId, previous>>

SpecAverage == InitAverage /\ [][CalculateAverageInformationEntropy]_vars

InitEntries ==
  /\ op = "none"
  /\ probabilities = <<>>
  /\ totalNumberOfEntries = 0
  /\ attributeAndItsEntropyPair = <<>>
  /\ data \in DataInputs
  /\ attributeId = 0
  /\ result = NoResult
  /\ previous = NoResult

Query(name, outcome) ==
  /\ op = "none"
  /\ op' = name
  /\ result' = outcome
  /\ UNCHANGED <<probabilities, totalNumberOfEntries,
                 attributeAndItsEntropyPair, data, previous>>

IsEmpty ==
  Query("isEmpty", Return(isEmpty(data))) /\ UNCHANGED attributeId

GetClasses ==
  Query("getClasses", Return(getClasses(data))) /\ UNCHANGED attributeId

AreAllEntriesWithSameClass ==
  /\ Query("areAllEntriesWithSameClass",
           Return(areAllEntriesWithSameClass(data)))
  /\ UNCHANGED attributeId

CalculateAttributeAverageInformationEntropy ==
  \E a \in 0..(NumAttributes - 1) :
    /\ ~isEmpty(data)
    /\ attributeId' = a
    /\ Query("calculateAttributeAverageInformationEntropy",
             calculateAttributeAverageInformationEntropy(data, a))

\* The query is called on a dataset with a row, and may be called again.
GetAttributeWithHighestInformationGain ==
  /\ ~isEmpty(data)
  /\ \/ op = "none"
     \/ op = "getAttributeWithHighestInformationGain" /\ previous = NoResult
  /\ op' = "getAttributeWithHighestInformationGain"
  /\ previous' = result
  /\ result' = getAttributeWithHighestInformationGain(data)
  /\ UNCHANGED <<probabilities, totalNumberOfEntries,
                 attributeAndItsEntropyPair, data, attributeId>>

NextEntries ==
  \/ IsEmpty
  \/ GetClasses
  \/ AreAllEntriesWithSameClass
  \/ CalculateAttributeAverageInformationEntropy
  \/ GetAttributeWithHighestInformationGain

SpecEntries == InitEntries /\ [][NextEntries]_vars

\* ------------------------------------------------------------ properties
\* The exact sum of doubles in [0, 1], as <<e, m>> for m * 2^e with e <= 0.
ExactPlus(u, x) ==
  IF x.kind = "zero" THEN u
  ELSE <<Min(u[1], x.exp),
         BAdd(BShl(u[2], u[1] - Min(u[1], x.exp)),
              BShl(x.mant, x.exp - Min(u[1], x.exp)))>>

RECURSIVE ExactSumUpTo(_, _)
ExactSumUpTo(p, n) ==
  IF n = 0 THEN <<0, <<>>>> ELSE ExactPlus(ExactSumUpTo(p, n - 1), p[n])

ExactSum(p) == ExactSumUpTo(p, Len(p))

\* |m - one|, one being 2^-e
Deviation(m, one) == IF BCmp(m, one) >= 0 THEN BSub(m, one) ELSE BSub(one, m)

IsOne(u) == BCmp(u[2], BShl(<<1>>, -u[1])) = 0

\* |u - 1| <= 10^-9
WithinTolerance(u) ==
  BCmp(BMulSmall(BMulSmall(Deviation(u[2], BShl(<<1>>, -u[1])), 10^4), 10^5),
       BShl(<<1>>, -u[1])) <= 0

Called(name) == op = name

InvalidSum == Throw("InvalidSumOfProbabilitiesException")
InvalidNumber == Throw("InvalidNumberOfEntriesException")

\* C1: calculateEntropy throws InvalidSumOfProbabilitiesException, and
\* returns no entropy, for every probability sequence whose sum deviates
\* from 1 by more than the tolerance 10^-9, such as <<0.5, 0.49>>.
C1_DeviatingSumRejected ==
  Called("calculateEntropy") /\ ~WithinTolerance(ExactSum(probabilities))
    => result = InvalidSum

C1_Witness ==
  /\ Called("calculateEntropy")
  /\ probabilities = <<D(1, 2), D(49, 100)>>
  /\ result.kind = "throw"

\* C4: for a probability sequence that sums to 1 and holds a 0,
\* calculateEntropy returns the entropy of the sequence without its zeros,
\* and that value is not NaN.
WithoutZeros(p) == LET NonZero(x) == x # Zero IN SelectSeq(p, NonZero)

C4_ZeroContributesNothing ==
  /\ Called("calculateEntropy")
  /\ IsOne(ExactSum(probabilities))
  /\ \E i \in 1..Len(probabilities) : probabilities[i] = Zero
  => /\ result.kind = "return"
     /\ result.value.kind # "nan"
     /\ result = calculateEntropy(WithoutZeros(probabilities))

\* C5: calculateEntropy does not throw InvalidSumOfProbabilitiesException
\* for a probability sequence whose sum is within 10^-9 of 1.
C5_NearOneAccepted ==
  Called("calculateEntropy") /\ WithinTolerance(ExactSum(probabilities))
    => result # InvalidSum

\* C6: for the uniform distribution over 2^n outcomes calculateEntropy
\* returns n: 0 for <<1>>, 1 for <<1/2, 1/2>>, 2 for four times 1/4.
C6_UniformEntropy ==
  \A n \in 0..MaxUniformBits :
    Called("calculateEntropy") /\ probabilities = Uniform(n)
      => result = Return(FromInt(n))

C6_Witness ==
  /\ Called("calculateEntropy")
  /\ probabilities = Uniform(2)
  /\ result = Return(FromInt(2))

\* C9: calculateEntropy of the empty probability sequence throws
\* InvalidSumOfProbabilitiesException and returns no entropy.
C9_EmptyRejected ==
  Called("calculateEntropy") /\ probabilities = <<>> => result = InvalidSum

C9_Witness ==
  Called("calculateEntropy") /\ probabilities = <<>> /\ result.kind = "throw"

Counts == [i \in DOMAIN attributeAndItsEntropyPair |->
             attributeAndItsEntropyPair[i][1]]

SomeCountExceeds == \E i \in DOMAIN Counts : Counts[i] > totalNumberOfEntries

\* C2: calculateAverageInformationEntropy throws
\* InvalidNumberOfEntriesException, and returns no average, whenever some
\* pair has a count above totalCount, wherever the pair stands.
C2_OversizedCountRejected ==
  Called("calculateAverageInformationEntropy") /\ SomeCountExceeds
    => result = InvalidNumber

C2_Witness ==
  /\ Called("calculateAverageInformationEntropy")
  /\ Len(Counts) = 3
  /\ Counts[1] <= totalNumberOfEntries
  /\ Counts[2] > totalNumberOfEntries
  /\ result.kind = "throw"

\* The sum over the pairs, in their order, of (count / total) * entropy,
\* every operation rounded to a double as it is made.
RECURSIVE WeightedSumUpTo(_, _, _)
WeightedSumUpTo(total, pairs, n) ==
  IF n = 0 THEN Zero
  ELSE FAdd(WeightedSumUpTo(total, pairs, n - 1),
            FMul(FDiv(FromInt(pairs[n][1]), FromInt(total)), pairs[n][2]))

\* The exact sum of count * entropy over the first n pairs, as <<e, m>>.
Times(count, entropy) ==
  IF count = 0 THEN Zero ELSE [entropy EXCEPT !.mant = BMulSmall(@, count)]

RECURSIVE ExactWeightUpTo(_, _)
ExactWeightUpTo(pairs, n) ==
  IF n = 0 THEN <<0, <<>>>>
  ELSE ExactPlus(ExactWeightUpTo(pairs, n - 1), Times(pairs[n][1], pairs[n][2]))

\* |v * total - u| * 2^MantBits <= (n + 2) * u, for a double v >= 0 and an
\* exact u: v is u / total up to the n + 2 roundings of a sum of n terms.
RoundingOf(v, total, u, n) ==
  IF v.kind = "zero" THEN u[2] = <<>>
  ELSE BCmp(BShl(Deviation(BShl(BMulSmall(v.mant, total),
                                v.exp - Min(v.exp, u[1])),
                           BShl(u[2], u[1] - Min(v.exp, u[1]))),
                 MantBits),
            BMulSmall(BShl(u[2], u[1] - Min(v.exp, u[1])), n + 2)) <= 0

\* C3: for totalCount > 0 and pairs none of whose counts exceeds
\* totalCount, calculateAverageInformationEntropy returns the sum of
\* (count_i / totalCount) * entropy_i over the pairs, 0 for no pair: the
\* double that the sum yields term by term, which is the sum of the reals
\* up to the roundings of its operations.
C3_WeightedSum ==
  /\ Called("calculateAverageInformationEntropy")
  /\ totalNumberOfEntries > 0
  /\ ~SomeCountExceeds
  => /\ result = Return(WeightedSumUpTo(totalNumberOfEntries,
                                        attributeAndItsEntropyPair,
                                        Len(attributeAndItsEntropyPair)))
     /\ RoundingOf(result.value, totalNumberOfEntries,
                   ExactWeightUpTo(attributeAndItsEntropyPair,
                                   Len(attributeAndItsEntropyPair)),
                   Len(attributeAndItsEntropyPair))
     /\ attributeAndItsEntropyPair = <<>> => result = Return(Zero)

C3_Witness ==
  /\ Called("calculateAverageInformationEntropy")
  /\ totalNumberOfEntries = 2
  /\ attributeAndItsEntropyPair = <<<<1, FromInt(1)>>, <<1, D(1, 2)>>>>
  /\ result = Return(D(3, 4))

\* C10: calculateAverageInformationEntropy returns a value whenever every
\* count is at most totalCount, also when the counts sum to more or to
\* less than totalCount.
C10_ThrowsOnlyOnOversizedCount ==
  Called("calculateAverageInformationEntropy") /\ ~SomeCountExceeds
    => result.kind = "return"

C10_Witness ==
  /\ Called("calculateAverageInformationEntropy")
  /\ ~SomeCountExceeds
  /\ CountUpTo(attributeAndItsEntropyPair, Len(Counts)) > totalNumberOfEntries
  /\ result.kind = "return"

Attributes == 0..(NumAttributes - 1)

Gain(a) == InformationGains(data)[a + 1].value

\* C7: on a dataset with a row and an attribute
\* getAttributeWithHighestInformationGain returns an attribute of maximal
\* information gain, the lowest of them, and the same one when called
\* again.
C7_BestAttributeReturned ==
  Called("getAttributeWithHighestInformationGain") /\ ~isEmpty(data)
    => /\ result.kind = "return"
       /\ result.value \in Attributes
       /\ \A a \in Attributes : ~FLess(Gain(result.value), Gain(a))
       /\ \A a \in Attributes :
            a < result.value => FLess(Gain(a), Gain(result.value))
       /\ previous # NoResult => previous = result

RECURSIVE SumOfCounts(_, _, _)
SumOfCounts(rows, a, values) ==
  IF values = {} THEN 0
  ELSE LET v == CHOOSE x \in values : TRUE
       IN countEntriesByAttribute(rows, a, v) + SumOfCounts(rows, a, values \ {v})

\* C8: the counts of the values of an attribute sum to the number of rows,
\* and calculateAttributeAverageInformationEntropy never throws
\* InvalidNumberOfEntriesException.
C8_PartitionCountsSumToTotal ==
  /\ \A a \in Attributes :
       SumOfCounts(data, a, getAllPossibleAttributeValues(data, a)) = Len(data)
  /\ Called("calculateAttributeAverageInformationEntropy")
       => result # InvalidNumber

C8_Witness ==
  /\ Called("calculateAttributeAverageInformationEntropy")
  /\ Len(data) = 3
  /\ Cardinality(getAllPossibleAttributeValues(data, attributeId)) = 2
  /\ result.kind = "return"
====
